---- MODULE Spec2Model ----
(***************************************************************************)
(* A model of onefuzzlib/orm.py: the record engine that maps typed records *)
(* onto rows of a partitioned key-value table and fires state-driven side  *)
(* effects (queue, telemetry, dashboard) on every save.                    *)
(*                                                                         *)
(* Python values are tagged records, so that a conversion (the JSON round  *)
(* trip of raw(), resolve(), json.dumps) changes the value it is given.    *)
(***************************************************************************)
EXTENDS Integers, Sequences, FiniteSets, TLC

VARIABLES
    cls,      \* the record type (a subclass of ORMMixin) the run is about
    scope,    \* the run: its callers, the keys they use, whether the store fails
    store,    \* the table of that type: resolved (PartitionKey, RowKey) -> row
    nextEtag, \* the store's source of fresh concurrency tokens
    objs,     \* the in-memory record objects held by the callers
    last,     \* the most recent call on the engine: arguments, outcome, effects
    replaced, \* history: the tokens a successful replace_entity was given
    written   \* history: per object, the keys its saves wrote at, in order

vars == <<cls, scope, store, nextEtag, objs, last, replaced, written>>

(***************************************************************************)
(* Bounds.                                                                 *)
(***************************************************************************)
\* The store hands out MaxEtag tokens: at most that many successful writes.
MaxEtag == 2

\* The callers that hold a record object.
Handles == {1, 2}

\* The longest list of values a query gives one field.
MaxValues == 2

(***************************************************************************)
(* Python values.                                                          *)
(***************************************************************************)
NoneV == [t |-> "none"]

StrV(s) == [t |-> "str", s |-> s]

IntV(n) == [t |-> "int", n |-> n]

UuidV(s) == [t |-> "uuid", s |-> s]

EnumV(name, value) == [t |-> "enum", name |-> name, value |-> value]

DatetimeV(n) == [t |-> "datetime", at |-> n]

ListV(items) == [t |-> "list", items |-> items]

\* A dict of one item.
DictV(key, value) == [t |-> "dict", key |-> key, value |-> value]

RECURSIVE ListsUpTo(_, _)
\* The lists of at most n values of S.
ListsUpTo(S, n) ==
    IF n = 0 THEN {<<>>}
    ELSE LET shorter == ListsUpTo(S, n - 1)
         IN  shorter \cup {Append(l, x) : l \in {s \in shorter : Len(s) = n - 1},
                                          x \in S}

Digit(d) == CASE d = 0 -> "0" [] d = 1 -> "1" [] d = 2 -> "2" [] d = 3 -> "3"
              [] d = 4 -> "4" [] d = 5 -> "5" [] d = 6 -> "6" [] d = 7 -> "7"
              [] d = 8 -> "8" [] OTHER -> "9"

RECURSIVE Decimal(_)
\* str(n) of a natural number.
Decimal(n) == IF n < 10 THEN Digit(n) ELSE Decimal(n \div 10) \o Digit(n % 10)

\* str(n) of an int.
IntStr(n) == IF n < 0 THEN "-" \o Decimal(0 - n) ELSE Decimal(n)

\* Python's truth value of v (None, "" and 0 are false).
Truthy(v) ==
    CASE v.t = "none" -> FALSE
      [] v.t = "str" -> v.s # ""
      [] v.t = "int" -> v.n # 0
      [] OTHER -> TRUE

UnsupportedKey == "NotImplementedError"

\* resolve(key): the table store's string form of a typed key.
resolve(key) ==
    CASE key.t = "str" -> key.s
      [] key.t = "uuid" -> key.s
      [] key.t = "enum" -> key.name
      [] key.t = "int" -> IntStr(key.n)
      [] OTHER -> UnsupportedKey

(***************************************************************************)
(* Record types.  ORMMixin is generic: a subclass declares its fields, its *)
(* key_fields() and its include/exclude filters, and its name decides      *)
(* whether UpdateType and TelemetryEvent have a member for it.  The run    *)
(* draws one record type from RecordTypes.                                 *)
(***************************************************************************)
NoField == "-"

\* A state enumeration with needs_work(): init and stopping are pending.
WorkStates == {EnumV("init", StrV("init")), EnumV("stopping", StrV("stopping")),
               EnumV("running", StrV("running"))}

needs_work == {EnumV("init", StrV("init")), EnumV("stopping", StrV("stopping"))}

\* An enumeration used as a key: its names differ from its values.
Kinds == {EnumV("linux", StrV("L")), EnumV("windows", StrV("W"))}

Work ==
    [name |-> "Work", pkf |-> "group", rkf |-> "id",
     types |-> [f \in {"group", "id", "state"} |->
                  CASE f = "group" -> "str" [] f = "id" -> "uuid"
                    [] OTHER -> "WorkState"],
     update_type |-> TRUE, telemetry_event |-> TRUE,
     event_include |-> {"id", "state"}, telemetry_include |-> {"state"},
     save_exclude |-> {}]

Stray ==
    [name |-> "Stray", pkf |-> "kind", rkf |-> "seq",
     types |-> [f \in {"kind", "seq", "state"} |->
                  CASE f = "kind" -> "Kind" [] f = "seq" -> "int"
                    [] OTHER -> "WorkState"],
     update_type |-> FALSE, telemetry_event |-> FALSE,
     event_include |-> {"state"}, telemetry_include |-> {},
     save_exclude |-> {}]

Note ==
    [name |-> "Note", pkf |-> "name", rkf |-> NoField,
     types |-> [f \in {"name", "data"} |-> "str"],
     update_type |-> FALSE, telemetry_event |-> TRUE,
     event_include |-> {"data"}, telemetry_include |-> {"data"},
     save_exclude |-> {}]

RecordTypes == {Work, Stray, Note}

\* A record type with a Dict[str, str] field and a List[str] field.
Batch ==
    [name |-> "Batch", pkf |-> "name", rkf |-> NoField,
     types |-> [f \in {"name", "tags", "items"} |->
                  CASE f = "name" -> "str" [] f = "tags" -> "dict"
                    [] OTHER -> "list"],
     update_type |-> FALSE, telemetry_event |-> FALSE,
     event_include |-> {"items"}, telemetry_include |-> {},
     save_exclude |-> {}]

\* cls.__fields__: the declared fields and the two every ORMMixin has.
Fields(c) == DOMAIN c.types \cup {"Timestamp", "etag"}

\* The values the callers give a field of type ty.
TypeValues(ty) ==
    CASE ty = "str" -> {StrV("a"), StrV("b")}
      [] ty = "uuid" -> {UuidV("u1"), UuidV("u2")}
      [] ty = "int" -> {IntV(0), IntV(12)}
      [] ty = "Kind" -> Kinds
      [] ty = "WorkState" -> WorkStates
      [] ty = "dict" -> {DictV("k", "v")}
      [] ty = "list" -> {ListV(l) : l \in ListsUpTo({"x", "y"}, MaxValues)}
      [] OTHER -> {}

\* One value of each key type, for the runs on a single row.
FirstValue(ty) ==
    CASE ty = "str" -> StrV("a")
      [] ty = "uuid" -> UuidV("u1")
      [] ty = "int" -> IntV(0)
      [] OTHER -> EnumV("linux", StrV("L"))

\* The values of field f of record type c in a run on nkeys rows: one
\* partition and nkeys rows of it (nkeys partitions when the type has no row
\* key); a str field that is no key is optional.
FieldValues(c, f, nkeys) ==
    IF f \in {c.pkf, c.rkf}
    THEN IF nkeys = 1 \/ (f = c.pkf /\ c.rkf # NoField)
         THEN {FirstValue(c.types[f])}
         ELSE TypeValues(c.types[f])
    ELSE IF c.types[f] = "str" THEN {NoneV, StrV("a")}
         ELSE IF c.types[f] \in {"dict", "list"}
         THEN TypeValues(c.types[f]) \cup {NoneV}
         ELSE TypeValues(c.types[f])

(***************************************************************************)
(* Record objects and their serialization.                                 *)
(***************************************************************************)
\* A record object: a value (or None) per field.
Blank(c) == [f \in Fields(c) |-> NoneV]

\* getattr(obj, f, None).
Attr(c, obj, f) == IF f \in Fields(c) THEN obj[f] ELSE NoneV

\* What json.loads(self.json()) leaves of a value: wrapped types resolve to
\* JSON's own (a UUID to its text, an enumeration member to its value, a
\* datetime to its ISO text).
JsonCycle(v) ==
    CASE v.t = "uuid" -> StrV(v.s)
      [] v.t = "enum" -> v.value
      [] v.t = "datetime" -> StrV("T" \o IntStr(v.at))
      [] OTHER -> v

RECURSIVE JoinItems(_)
JoinItems(items) ==
    IF items = <<>> THEN ""
    ELSE IF Len(items) = 1 THEN "\"" \o Head(items) \o "\""
    ELSE "\"" \o Head(items) \o "\", " \o JoinItems(Tail(items))

\* json.dumps(v) of a value that came out of json.loads.
JsonDumps(v) ==
    CASE v.t = "str" -> "\"" \o v.s \o "\""
      [] v.t = "int" -> IntStr(v.n)
      [] v.t = "list" -> "[" \o JoinItems(v.items) \o "]"
      [] v.t = "dict" -> "{\"" \o v.key \o "\": \"" \o v.value \o "\"}"
      [] OTHER -> "null"

\* self.raw(exclude_none=True, exclude=..., include=...): the fields kept,
\* each through the JSON cycle.  include = {} keeps nothing.
raw(c, obj, exclude, include) ==
    LET kept == {f \in (Fields(c) \ exclude) \cap include : obj[f] # NoneV}
    IN  [f \in kept |-> JsonCycle(obj[f])]

\* self.event() and self.telemetry().
event(c, obj) == raw(c, obj, {}, c.event_include)

telemetry(c, obj) == raw(c, obj, {}, c.telemetry_include)

\* The type of a field as save() and load() look it up.
FieldType(c, f) ==
    IF f = "Timestamp" THEN "datetime"
    ELSE IF f = "etag" THEN "str" ELSE c.types[f]

\* save(), lines 268-279: the raw row, values that are neither str nor int
\* as JSON text, and the datetime fields with their real value again.
SaveColumns(c, obj) ==
    LET r == raw(c, obj, c.save_exclude, Fields(c))
    IN  [f \in DOMAIN r |->
            IF FieldType(c, f) = "datetime" THEN obj[f]
            ELSE IF r[f].t \in {"str", "int"} THEN r[f]
            ELSE StrV(JsonDumps(r[f]))]

\* The field whose value becomes the RowKey.
RowKeyField(c) == IF c.rkf # NoField THEN c.rkf ELSE c.pkf

\* A row that keeps the key fields as columns beside PartitionKey and RowKey.
SaveEntity_keeps_keys(c, obj) ==
    LET r == SaveColumns(c, obj)
        cols == (DOMAIN r \ {"Timestamp"}) \cup {"PartitionKey", "RowKey"}
    IN  [f \in cols |->
            IF f = "PartitionKey" THEN StrV(resolve(r[c.pkf]))
            ELSE IF f = "RowKey" THEN StrV(resolve(r[RowKeyField(c)]))
            ELSE r[f]]

\* save(), lines 281-295: PartitionKey and RowKey resolved from the raw
\* key fields, the key fields and the Timestamp removed.
SaveEntity(c, obj) ==
    LET r == SaveColumns(c, obj)
        cols == ((DOMAIN r \ {c.pkf, c.rkf, "Timestamp"})
                 \cup {"PartitionKey", "RowKey"})
    IN  [f \in cols |->
            IF f = "PartitionKey" THEN StrV(resolve(r[c.pkf]))
            ELSE IF f = "RowKey" THEN StrV(resolve(r[RowKeyField(c)]))
            ELSE r[f]]

\* The store's key of an entity.
EntityKey(e) == <<e["PartitionKey"].s, e["RowKey"].s>>

\* get_keys(): the typed key values of an object.
get_keys(c, obj) == <<obj[c.pkf], obj[RowKeyField(c)]>>

\* The integer a decimal text stands for, among the model's integers.
ParseInt(s) ==
    LET hit == {v \in TypeValues("int") : IntStr(v.n) = s}
    IN  IF hit = {} THEN NoneV ELSE CHOOSE v \in hit : TRUE

\* parse_obj's validation of one wire value against a field type; None when
\* the value is no value of the type.
Parse(ty, v) ==
    CASE v.t = "none" -> NoneV
      [] ty = "str" -> IF v.t = "str" THEN v
                       ELSE IF v.t = "int" THEN StrV(IntStr(v.n)) ELSE NoneV
      [] ty = "int" -> IF v.t = "int" THEN v
                       ELSE IF v.t = "str" THEN ParseInt(v.s) ELSE NoneV
      [] ty = "uuid" -> IF v.t = "str" THEN UuidV(v.s) ELSE NoneV
      [] ty = "datetime" -> IF v.t = "datetime" THEN v ELSE NoneV
      [] ty \in {"Kind", "WorkState"} ->
            LET hit == {m \in TypeValues(ty) : m.value = v}
            IN  IF hit = {} THEN NoneV ELSE CHOOSE m \in hit : TRUE
      [] ty \in {"dict", "list"} -> IF v.t = ty THEN v ELSE NoneV
      [] OTHER -> NoneV

\* json.loads(v) of a column: the dict or list the text writes; None when
\* the model has no such value.
JsonLoads(v) ==
    LET hit == {j \in TypeValues("dict") \cup TypeValues("list") :
                  v.t = "str" /\ JsonDumps(j) = v.s}
    IN  IF hit = {} THEN NoneV ELSE CHOOSE j \in hit : TRUE

\* load(data), lines 354-376: the fields whose annotation is a model, a dict
\* or a Union with a model are decoded from JSON; the others are left.
Decoded(c, f, v) ==
    IF FieldType(c, f) \in {"model", "dict"} THEN JsonLoads(v) ELSE v

\* load(data), lines 347-352: the store's key columns moved into the key
\* fields.
Moved(c, data) ==
    [f \in (DOMAIN data \ {"PartitionKey", "RowKey"})
              \cup {c.pkf} \cup ({c.rkf} \ {NoField}) |->
        IF f = c.pkf THEN data["PartitionKey"]
        ELSE IF f = c.rkf THEN data["RowKey"]
        ELSE data[f]]

\* load(data), lines 334-345: a row that already carries a key field.
LoadRaises(c, data) == c.pkf \in DOMAIN data \/ c.rkf \in DOMAIN data

\* load(data), lines 347-378: the key columns moved, the JSON fields decoded
\* and the declared fields parsed; None for a value parse_obj refuses.
load(c, data) ==
    LET moved == Moved(c, data)
    IN  [f \in Fields(c) |->
            IF f \in DOMAIN moved
            THEN Parse(FieldType(c, f), Decoded(c, f, moved[f]))
            ELSE NoneV]

\* parse_obj, line 378, raises: a key field without a value, or a column
\* whose value is no value of the field's type.
LoadInvalid(c, data) ==
    LET moved == Moved(c, data)
        got == load(c, data)
    IN  \/ got[c.pkf] = NoneV
        \/ got[RowKeyField(c)] = NoneV
        \/ \E f \in Fields(c) \cap DOMAIN moved :
              moved[f] # NoneV /\ got[f] = NoneV

(***************************************************************************)
(* Query filters: build_filters() compiles a query, a dict from field      *)
(* names to lists of allowed values, into the store's filter expression    *)
(* and the filters left to the client.  A query is the sequence of the     *)
(* dict's items, in the dict's order.                                      *)
(***************************************************************************)
\* The types whose values go into a filter expression unescaped.  Container,
\* Region and PoolName are declared in onefuzztypes; the queries here carry
\* UUIDs.
SAFE_STRINGS == {"uuid", "Container", "Region", "PoolName"}

RECURSIVE join(_, _)
\* sep.join(parts).
join(sep, parts) ==
    IF parts = <<>> THEN ""
    ELSE IF Len(parts) = 1 THEN parts[1]
    ELSE parts[1] \o sep \o join(sep, Tail(parts))

\* build_filters(), lines 102-107: the store's name of a field.
field_name(c, field) ==
    IF field = c.pkf THEN "PartitionKey"
    ELSE IF field = c.rkf THEN "RowKey"
    ELSE field

\* Clauses only for a list all of ints, all of enumerated values or all of
\* safe strings; every other list left to the client, none refused.
filter_parts_defers_mixed(name, values) ==
    IF \A i \in DOMAIN values : values[i].t = "int"
    THEN [raises |-> "",
          parts |-> [i \in DOMAIN values |->
                       name \o " eq " \o IntStr(values[i].n)],
          post |-> FALSE]
    ELSE IF \A i \in DOMAIN values : values[i].t = "enum"
    THEN [raises |-> "",
          parts |-> [i \in DOMAIN values |->
                       name \o " eq '" \o values[i].name \o "'"],
          post |-> FALSE]
    ELSE IF \A i \in DOMAIN values : values[i].t \in SAFE_STRINGS
    THEN [raises |-> "",
          parts |-> [i \in DOMAIN values |->
                       name \o " eq '" \o values[i].s \o "'"],
          post |-> FALSE]
    ELSE [raises |-> "", parts |-> <<>>, post |-> TRUE]

\* build_filters(), lines 109-124: the clauses of one field, by the type of
\* the first value; a list of no clause type is left to the client.
filter_parts(name, values) ==
    IF values[1].t = "int"
    THEN IF \E i \in DOMAIN values : values[i].t # "int"
         THEN [raises |-> "TypeError", parts |-> <<>>, post |-> FALSE]
         ELSE [raises |-> "",
               parts |-> [i \in DOMAIN values |->
                            name \o " eq " \o IntStr(values[i].n)],
               post |-> FALSE]
    ELSE IF values[1].t = "enum"
    THEN IF \E i \in DOMAIN values : values[i].t # "enum"
         THEN [raises |-> "TypeError", parts |-> <<>>, post |-> FALSE]
         ELSE [raises |-> "",
               parts |-> [i \in DOMAIN values |->
                            name \o " eq '" \o values[i].name \o "'"],
               post |-> FALSE]
    ELSE IF \A i \in DOMAIN values : values[i].t \in SAFE_STRINGS
    THEN [raises |-> "",
          parts |-> [i \in DOMAIN values |->
                       name \o " eq '" \o values[i].s \o "'"],
          post |-> FALSE]
    ELSE [raises |-> "", parts |-> <<>>, post |-> TRUE]

\* Every group in brackets, a single clause too.
filter_group_always_bracketed(parts) == "(" \o join(" or ", parts) \o ")"

\* build_filters(), lines 126-130: the clauses of one field as one group.
filter_group(parts) ==
    IF Len(parts) = 1 THEN parts[1]
    ELSE "(" \o join(" or ", parts) \o ")"

NoFilters == [n \in {} |-> <<>>]

RECURSIVE filter_loop(_, _, _, _)
\* build_filters(), lines 94-130: the loop over the items of the query.
filter_loop(c, items, search_filter_parts, post_filters) ==
    IF items = <<>>
    THEN [raises |-> "", parts |-> search_filter_parts, post |-> post_filters]
    ELSE LET field == items[1][1]
             values == items[1][2]
             name == field_name(c, field)
             p == filter_parts(name, values)
         IN  IF field \notin Fields(c)
             THEN [raises |-> "ValueError", parts |-> <<>>, post |-> NoFilters]
             ELSE IF values = <<>>
             THEN filter_loop(c, Tail(items), search_filter_parts, post_filters)
             ELSE IF p.raises # ""
             THEN [raises |-> p.raises, parts |-> <<>>, post |-> NoFilters]
             ELSE filter_loop(c, Tail(items),
                     IF p.parts # <<>>
                     THEN Append(search_filter_parts, filter_group(p.parts))
                     ELSE search_filter_parts,
                     IF p.post
                     THEN [n \in DOMAIN post_filters \cup {name} |->
                             IF n = name THEN values ELSE post_filters[n]]
                     ELSE post_filters)

\* build_filters(cls, query_args): the filter expression, or None, and the
\* filters left to the client; or the error raised.
build_filters(c, query_args) ==
    IF query_args = <<>>
    THEN [raises |-> "", filter |-> NoneV, post |-> NoFilters]
    ELSE LET r == filter_loop(c, query_args, <<>>, NoFilters)
         IN  IF r.raises # ""
             THEN [raises |-> r.raises, filter |-> NoneV, post |-> NoFilters]
             ELSE [raises |-> "",
                   filter |-> IF r.parts # <<>>
                              THEN StrV(join(" and ", r.parts)) ELSE NoneV,
                   post |-> r.post]

\* A post_filter that lets a row pass when it lacks a filtered field.
post_filter_loop_missing_passes(value, filters, fields) ==
    \A field \in fields :
       field \in DOMAIN value
       => \E i \in DOMAIN filters[field] : filters[field][i] = value[field]

RECURSIVE post_filter_loop(_, _, _)
\* post_filter(), lines 142-146: the loop over the fields of the filters
\* that are still to be looked at.
post_filter_loop(value, filters, fields) ==
    IF fields = {} THEN TRUE
    ELSE LET field == CHOOSE f \in fields : TRUE
         IN  IF field \notin DOMAIN value THEN FALSE
             ELSE IF \A i \in DOMAIN filters[field] :
                        filters[field][i] # value[field]
             THEN FALSE
             ELSE post_filter_loop(value, filters, fields \ {field})

\* post_filter(value, filters): no filters, None or empty, pass every row.
post_filter(value, filters) ==
    IF filters = NoneV THEN TRUE
    ELSE IF DOMAIN filters = {} THEN TRUE
    ELSE post_filter_loop(value, filters, DOMAIN filters)

(***************************************************************************)
(* The table client (get_client): the rows of one table, each with the     *)
(* entity last written and the concurrency token the store gave it.  Every *)
(* call answers [ok, error, store, etag].                                  *)
(***************************************************************************)
EtagOf(n) == StrV("W" \o IntStr(n))

TimestampOf(n) == DatetimeV(n)

Put(st, e, n) ==
    [k \in DOMAIN st \cup {EntityKey(e)} |->
        IF k = EntityKey(e) THEN [cols |-> e, etag |-> EtagOf(n), at |-> n]
        ELSE st[k]]

Refused(st, error) == [ok |-> FALSE, error |-> error, store |-> st, etag |-> NoneV]

Written(st, e, n) ==
    [ok |-> TRUE, error |-> "", store |-> Put(st, e, n), etag |-> EtagOf(n)]

\* client.insert_entity: a conflict when the key has a row.
insert_entity(st, e, n) ==
    IF EntityKey(e) \in DOMAIN st THEN Refused(st, "AzureConflictHttpError")
    ELSE Written(st, e, n)

\* client.replace_entity(if_match=etag): the row must exist and carry etag.
replace_entity(st, e, if_match, n) ==
    IF EntityKey(e) \notin DOMAIN st
    THEN Refused(st, "AzureMissingResourceHttpError")
    ELSE IF st[EntityKey(e)].etag # if_match
         THEN Refused(st, "AzureHttpError(412)")
         ELSE Written(st, e, n)

\* client.insert_or_replace_entity: writes whatever is there.
insert_or_replace_entity(st, e, n) == Written(st, e, n)

\* client.delete_entity: not-found when the key has no row.
delete_entity(st, k) ==
    IF k \notin DOMAIN st THEN Refused(st, "AzureMissingResourceHttpError")
    ELSE [ok |-> TRUE, error |-> "", etag |-> NoneV,
          store |-> [j \in DOMAIN st \ {k} |-> st[j]]]

\* client.get_entity: the entity with the store's Timestamp and etag.
get_entity(st, k) ==
    LET row == st[k]
    IN  [f \in DOMAIN row.cols \cup {"Timestamp", "etag"} |->
            IF f = "Timestamp" THEN TimestampOf(row.at)
            ELSE IF f = "etag" THEN row.etag
            ELSE row.cols[f]]

\* A lookup or a delete can fail for a reason of the store's own.
StoreFault == "AzureHttpError(500)"

(***************************************************************************)
(* The calls the engine makes on its collaborators, in the order made.     *)
(***************************************************************************)
Call(name, args, outcome) == [call |-> name, args |-> args, outcome |-> outcome]

QUEUE_DELAY_STOPPING_SECONDS == 30

QUEUE_DELAY_CREATE_SECONDS == 5

\* queue(visibility_timeout): the update of the record's type and keys, or
\* NotImplementedError when UpdateType has no member of the type's name.
queue(c, obj, visibility_timeout) ==
    IF "state" \notin Fields(c)
    THEN [raises |-> TRUE, calls |-> <<>>]
    ELSE IF ~c.update_type
    THEN [raises |-> TRUE, calls |-> <<>>]
    ELSE [raises |-> FALSE,
          calls |-> <<Call("queue_update",
                           <<c.name, resolve(get_keys(c, obj)[1]),
                             resolve(get_keys(c, obj)[2]), NoneV,
                             visibility_timeout>>, "ok")>>]

\* A dispatcher that does not ask whether the state needs work.
queue_as_needed_any_state(c, obj) ==
    LET state == Attr(c, obj, "state")
    IN  IF state = NoneV THEN [raises |-> FALSE, calls |-> <<>>]
        ELSE IF state \notin WorkStates THEN [raises |-> FALSE, calls |-> <<>>]
        ELSE IF state.name \in {"stopping", "stop", "shutdown"}
        THEN queue(c, obj, QUEUE_DELAY_STOPPING_SECONDS)
        ELSE queue(c, obj, QUEUE_DELAY_CREATE_SECONDS)

\* _queue_as_needed(): a record whose state needs work is queued.
queue_as_needed(c, obj) ==
    LET state == Attr(c, obj, "state")
    IN  IF state = NoneV THEN [raises |-> FALSE, calls |-> <<>>]
        ELSE IF state \notin WorkStates THEN [raises |-> FALSE, calls |-> <<>>]
        ELSE IF state \notin needs_work THEN [raises |-> FALSE, calls |-> <<>>]
        ELSE IF state.name \in {"stopping", "stop", "shutdown"}
        THEN queue(c, obj, QUEUE_DELAY_STOPPING_SECONDS)
        ELSE queue(c, obj, QUEUE_DELAY_CREATE_SECONDS)

\* An event sent whatever the data.
event_as_needed_unconditional(c, obj) ==
    <<Call("add_event", <<c.name, event(c, obj)>>, "ok")>>

\* _event_as_needed(): the event data, when there is any, to the dashboard.
event_as_needed(c, obj) ==
    IF DOMAIN event(c, obj) = {} THEN <<>>
    ELSE <<Call("add_event", <<c.name, event(c, obj)>>, "ok")>>

\* save(), lines 310-313: the telemetry of a type TelemetryEvent names.
track_as_needed(c, obj) ==
    IF ~c.telemetry_event THEN <<>>
    ELSE IF DOMAIN telemetry(c, obj) = {} THEN <<>>
    ELSE <<Call("track_event_filtered", <<c.name, telemetry(c, obj)>>, "ok")>>

\* A save that never asks the store to compare tokens.
save_write_unchecked(st, obj, e, new, require_etag, n) ==
    IF new THEN insert_entity(st, e, n)
    ELSE insert_or_replace_entity(st, e, n)

\* A save whose create path writes over the row that is there.
save_write_create_upserts(st, obj, e, new, require_etag, n) ==
    IF ~new /\ Truthy(obj["etag"]) /\ require_etag
    THEN replace_entity(st, e, obj["etag"], n)
    ELSE insert_or_replace_entity(st, e, n)

\* A save that takes the conditional path on require_etag alone.
save_write_without_token(st, obj, e, new, require_etag, n) ==
    IF new THEN insert_entity(st, e, n)
    ELSE IF require_etag
         THEN replace_entity(st, e, obj["etag"], n)
         ELSE insert_or_replace_entity(st, e, n)

\* A token-checked write that inserts the row when the store has none.
save_write_recreates_missing(st, obj, e, new, require_etag, n) ==
    IF new THEN insert_entity(st, e, n)
    ELSE IF Truthy(obj["etag"]) /\ require_etag /\ EntityKey(e) \in DOMAIN st
         THEN replace_entity(st, e, obj["etag"], n)
         ELSE insert_or_replace_entity(st, e, n)

\* save(), lines 297-307: the store call the arguments select.
save_write(st, obj, e, new, require_etag, n) ==
    IF new THEN insert_entity(st, e, n)
    ELSE IF Truthy(obj["etag"]) /\ require_etag
         THEN replace_entity(st, e, obj["etag"], n)
         ELSE insert_or_replace_entity(st, e, n)

save_call(obj, new, require_etag) ==
    IF new THEN "insert_entity"
    ELSE IF Truthy(obj["etag"]) /\ require_etag THEN "replace_entity"
         ELSE "insert_or_replace_entity"

\* The dashboard event sent before the queue is looked at.
save_effects_event_first(c, saved) ==
    LET q == queue_as_needed(c, saved)
    IN  IF q.raises THEN [raises |-> TRUE, calls |-> <<>>]
        ELSE [raises |-> FALSE,
              calls |-> event_as_needed(c, saved) \o q.calls
                          \o track_as_needed(c, saved)]

\* save(), lines 309-316, once the row is written: the queue, then the
\* telemetry, then the dashboard event; a raise ends it.
save_effects(c, saved) ==
    LET q == queue_as_needed(c, saved)
    IN  IF q.raises THEN [raises |-> TRUE, calls |-> <<>>]
        ELSE [raises |-> FALSE,
              calls |-> q.calls \o track_as_needed(c, saved)
                          \o event_as_needed(c, saved)]

\* A save that drops the token and runs the queue and the events also when
\* the create was refused.
save_refused_create_notifies(c, st, obj, new, require_etag, n) ==
    LET e == SaveEntity(c, obj)
        name == save_call(obj, new, require_etag)
        w == save_write(st, obj, e, new, require_etag, n)
        saved == [obj EXCEPT !["etag"] = w.etag]
        fx == save_effects(c, saved)
        wrote == <<Call(name, <<e, obj["etag"]>>, "ok"),
                   Call("self.etag", <<w.etag>>, "ok")>>
    IN  IF ~w.ok /\ new /\ w.error = "AzureConflictHttpError"
        THEN [result |-> "Error", error |-> "UNABLE_TO_CREATE", store |-> st,
              obj |-> saved,
              calls |-> <<Call(name, <<e, obj["etag"]>>, w.error)>> \o fx.calls]
        ELSE IF ~w.ok
        THEN [result |-> "raise", error |-> w.error, store |-> st, obj |-> obj,
              calls |-> <<Call(name, <<e, obj["etag"]>>, w.error)>>]
        ELSE IF fx.raises
        THEN [result |-> "raise", error |-> "NotImplementedError",
              store |-> w.store, obj |-> saved, calls |-> wrote]
        ELSE [result |-> "None", error |-> "", store |-> w.store, obj |-> saved,
              calls |-> wrote \o fx.calls]

\* save(new, require_etag) of obj against store st: [result, error, store,
\* obj, calls].  result is "None", "Error" (a returned Error) or "raise".
save(c, st, obj, new, require_etag, n) ==
    LET e == SaveEntity(c, obj)
        name == save_call(obj, new, require_etag)
        w == save_write(st, obj, e, new, require_etag, n)
        saved == [obj EXCEPT !["etag"] = w.etag]
        fx == save_effects(c, saved)
        wrote == <<Call(name, <<e, obj["etag"]>>, "ok"),
                   Call("self.etag", <<w.etag>>, "ok")>>
    IN  IF ~w.ok /\ new /\ w.error = "AzureConflictHttpError"
        THEN [result |-> "Error", error |-> "UNABLE_TO_CREATE", store |-> st,
              obj |-> obj, calls |-> <<Call(name, <<e, obj["etag"]>>, w.error)>>]
        ELSE IF ~w.ok
        THEN [result |-> "raise", error |-> w.error, store |-> st, obj |-> obj,
              calls |-> <<Call(name, <<e, obj["etag"]>>, w.error)>>]
        ELSE IF fx.raises
        THEN [result |-> "raise", error |-> "NotImplementedError",
              store |-> w.store, obj |-> saved, calls |-> wrote]
        ELSE [result |-> "None", error |-> "", store |-> w.store, obj |-> saved,
              calls |-> wrote \o fx.calls]

\* A delete that lets the store's not-found through.
delete_raises_missing(c, st, obj, fault) ==
    LET k == <<resolve(get_keys(c, obj)[1]), resolve(get_keys(c, obj)[2])>>
        d == delete_entity(st, k)
        ev == event_as_needed(c, obj)
    IN  IF fault
        THEN [result |-> "raise", error |-> StoreFault, store |-> st, obj |-> obj,
              calls |-> ev \o <<Call("delete_entity", k, StoreFault)>>]
        ELSE [result |-> IF d.ok THEN "None" ELSE "raise", error |-> d.error,
              store |-> d.store, obj |-> obj,
              calls |-> ev \o <<Call("delete_entity", k,
                                     IF d.ok THEN "ok" ELSE d.error)>>]

\* A delete that sends the event once the store has deleted the row.
delete_event_after(c, st, obj, fault) ==
    LET k == <<resolve(get_keys(c, obj)[1]), resolve(get_keys(c, obj)[2])>>
        d == delete_entity(st, k)
        ev == event_as_needed(c, obj)
    IN  IF fault
        THEN [result |-> "raise", error |-> StoreFault, store |-> st, obj |-> obj,
              calls |-> <<Call("delete_entity", k, StoreFault)>>]
        ELSE [result |-> "None", error |-> "", store |-> d.store, obj |-> obj,
              calls |-> <<Call("delete_entity", k,
                               IF d.ok THEN "ok" ELSE d.error)>> \o ev]

\* delete() of obj: the event first, then the store's delete, whose not-found
\* is passed over.
delete(c, st, obj, fault) ==
    LET k == <<resolve(get_keys(c, obj)[1]), resolve(get_keys(c, obj)[2])>>
        d == delete_entity(st, k)
        ev == event_as_needed(c, obj)
    IN  IF fault
        THEN [result |-> "raise", error |-> StoreFault, store |-> st, obj |-> obj,
              calls |-> ev \o <<Call("delete_entity", k, StoreFault)>>]
        ELSE [result |-> "None", error |-> "", store |-> d.store, obj |-> obj,
              calls |-> ev \o <<Call("delete_entity", k,
                                     IF d.ok THEN "ok" ELSE d.error)>>]

\* get(PartitionKey, RowKey): the row key defaults to the partition key.
get_key(PartitionKey, RowKey) ==
    <<resolve(PartitionKey),
      IF Truthy(RowKey) THEN resolve(RowKey) ELSE resolve(PartitionKey)>>

\* get(): None when the store has no such row, else the loaded record.
get(c, st, obj, PartitionKey, RowKey, fault) ==
    LET k == get_key(PartitionKey, RowKey)
        data == get_entity(st, k)
        got == load(c, data)
    IN  IF fault
        THEN [result |-> "raise", error |-> StoreFault, store |-> st, obj |-> obj,
              calls |-> <<Call("get_entity", k, StoreFault)>>]
        ELSE IF k \notin DOMAIN st
        THEN [result |-> "None", error |-> "", store |-> st, obj |-> obj,
              calls |-> <<Call("get_entity", k, "AzureMissingResourceHttpError")>>]
        ELSE IF LoadRaises(c, data)
        THEN [result |-> "raise", error |-> "Exception", store |-> st, obj |-> obj,
              calls |-> <<Call("get_entity", k, "ok")>>]
        ELSE IF LoadInvalid(c, data)
        THEN [result |-> "raise", error |-> "ValidationError", store |-> st,
              obj |-> obj, calls |-> <<Call("get_entity", k, "ok")>>]
        ELSE [result |-> "record", error |-> "", store |-> st, obj |-> got,
              calls |-> <<Call("get_entity", k, "ok")>>]

(***************************************************************************)
(* search(): the table client's query, run on the compiled expression, and *)
(* the rows it answers filtered and loaded.  The store answers the rows    *)
(* that meet the expression in the order of their keys.                    *)
(***************************************************************************)
\* A value as the expression writes it: text in quotes, an int in digits.
Literal(v) ==
    CASE v.t = "str" -> "'" \o v.s \o "'"
      [] v.t = "int" -> IntStr(v.n)
      [] OTHER -> ""

\* The clause "column eq literal" is true of a row that has the column with
\* the value the literal writes.
ClauseHolds(row, e) ==
    \E col \in DOMAIN row :
       /\ row[col].t \in {"str", "int"}
       /\ e = col \o " eq " \o Literal(row[col])

\* Place i of e is outside quotes: an even number of quotes before it.
Unquoted(e, i) ==
    Cardinality({j \in 1..(i - 1) : SubSeq(e, j, j) = "'"}) % 2 = 0

\* The brackets open at place i of e.
Depth(e, i) ==
    Cardinality({j \in 1..(i - 1) : SubSeq(e, j, j) = "(" /\ Unquoted(e, j)})
    - Cardinality({j \in 1..(i - 1) : SubSeq(e, j, j) = ")" /\ Unquoted(e, j)})

\* The first place where pat stands in e outside brackets and quotes; 0 when
\* there is none.
FindTop(e, pat) ==
    LET hits == {i \in 1..(Len(e) - Len(pat) + 1) :
                    /\ SubSeq(e, i, i + Len(pat) - 1) = pat
                    /\ Unquoted(e, i)
                    /\ Depth(e, i) = 0}
    IN  IF hits = {} THEN 0 ELSE CHOOSE i \in hits : \A j \in hits : i <= j

RECURSIVE Holds(_, _)
\* The expression e is true of the row: or, then and, then brackets, then
\* a clause.
Holds(row, e) ==
    LET o == FindTop(e, " or ")
        a == FindTop(e, " and ")
    IN  IF o > 0
        THEN Holds(row, SubSeq(e, 1, o - 1)) \/ Holds(row, SubSeq(e, o + 4, Len(e)))
        ELSE IF a > 0
        THEN Holds(row, SubSeq(e, 1, a - 1)) /\ Holds(row, SubSeq(e, a + 5, Len(e)))
        ELSE IF Len(e) >= 2 /\ SubSeq(e, 1, 1) = "("
        THEN Holds(row, SubSeq(e, 2, Len(e) - 1))
        ELSE ClauseHolds(row, e)

\* The key texts of the model in the store's order.
KeyOrder == <<"0", "12", "L", "W", "a", "b", "linux", "u1", "u2", "windows">>

Position(s) == CHOOSE i \in DOMAIN KeyOrder : KeyOrder[i] = s

\* Key j comes before key k in the store.
Before(j, k) ==
    \/ Position(j[1]) < Position(k[1])
    \/ j[1] = k[1] /\ Position(j[2]) < Position(k[2])

RECURSIVE InOrder(_)
\* The keys of ks in the store's order.
InOrder(ks) ==
    IF ks = {} THEN <<>>
    ELSE LET k == CHOOSE k \in ks : \A j \in ks \ {k} : Before(k, j)
         IN  <<k>> \o InOrder(ks \ {k})

\* client.query_entities(filter, num_results): the rows that meet the
\* filter, in the store's order, at most num_results of them.
query_entities(st, filter, num_results) ==
    LET keys == InOrder(DOMAIN st)
        rows == [i \in DOMAIN keys |-> get_entity(st, keys[i])]
        MeetsFilter(row) == filter = NoneV \/ Holds(row, filter.s)
        hits == SelectSeq(rows, MeetsFilter)
    IN  IF num_results = NoneV \/ num_results.n >= Len(hits) THEN hits
        ELSE SubSeq(hits, 1, num_results.n)

\* A search that loads every row the store answers.
search_without_post_filter(c, st, query, raw_unchecked_filter, num_results) ==
    LET b == build_filters(c, query)
        search_filter ==
            IF raw_unchecked_filter = NoneV THEN b.filter
            ELSE IF b.filter = NoneV THEN raw_unchecked_filter
            ELSE StrV("(" \o b.filter.s \o ") and ("
                          \o raw_unchecked_filter.s \o ")")
        rows == query_entities(st, search_filter, num_results)
    IN  IF b.raises # ""
        THEN [result |-> "raise", error |-> b.raises, entries |-> <<>>,
              calls |-> <<>>]
        ELSE [result |-> "list", error |-> "",
              entries |-> [i \in DOMAIN rows |-> load(c, rows[i])],
              calls |-> <<Call("query_entities",
                               <<search_filter, num_results>>, "ok")>>]

\* search(query, raw_unchecked_filter, num_results): the records loaded from
\* the rows of the query that pass the filters left to the client.
search(c, st, query, raw_unchecked_filter, num_results) ==
    LET b == build_filters(c, query)
        search_filter ==
            IF raw_unchecked_filter = NoneV THEN b.filter
            ELSE IF b.filter = NoneV THEN raw_unchecked_filter
            ELSE StrV("(" \o b.filter.s \o ") and ("
                          \o raw_unchecked_filter.s \o ")")
        rows == query_entities(st, search_filter, num_results)
        Passes(row) == post_filter(row, b.post)
        kept == SelectSeq(rows, Passes)
        called == <<Call("query_entities", <<search_filter, num_results>>, "ok")>>
    IN  IF b.raises # ""
        THEN [result |-> "raise", error |-> b.raises, entries |-> <<>>,
              calls |-> <<>>]
        ELSE IF \E i \in DOMAIN kept : LoadRaises(c, kept[i])
        THEN [result |-> "raise", error |-> "Exception", entries |-> <<>>,
              calls |-> called]
        ELSE IF \E i \in DOMAIN kept : LoadInvalid(c, kept[i])
        THEN [result |-> "raise", error |-> "ValidationError", entries |-> <<>>,
              calls |-> called]
        ELSE [result |-> "list", error |-> "",
              entries |-> [i \in DOMAIN kept |-> load(c, kept[i])],
              calls |-> called]

(***************************************************************************)
(* The state machine: callers construct records, change their fields, and  *)
(* call get, save and delete, in any interleaving.                         *)
(***************************************************************************)
NoRows == [k \in {} |-> NoneV]

\* The row at key k, without columns or token when there is none.
NoRow == [cols |-> [f \in {} |-> NoneV], etag |-> NoneV, at |-> 0]

RowAt(st, k) == IF k \in DOMAIN st THEN st[k] ELSE NoRow

\* What is kept of a call: who made it, with what, what came back, the calls
\* it made, and the row it aims at as it was before.
Outcome(op, h, args, was, r) ==
    [op |-> op, h |-> h, args |-> args, was |-> was, result |-> r.result,
     error |-> r.error, calls |-> r.calls]

Quiet(op) ==
    [op |-> op, h |-> 0, args |-> <<>>, was |-> NoRow, result |-> "None",
     error |-> "", calls |-> <<>>]

\* One caller on two rows of any record type, the table empty.
Init ==
    /\ cls \in RecordTypes
    /\ scope = [callers |-> {1}, keys |-> 2, faults |-> BOOLEAN]
    /\ store = NoRows
    /\ nextEtag = 1
    /\ objs = [h \in Handles |-> [live |-> FALSE, f |-> Blank(cls)]]
    /\ last = Quiet("none")
    /\ replaced = {}
    /\ written = [h \in Handles |-> <<>>]

RECURSIVE Assignments(_, _, _)
\* Every choice of a value for each field of fs.
Assignments(c, fs, nkeys) ==
    IF fs = {} THEN {Blank(c)}
    ELSE LET x == CHOOSE x \in fs : TRUE
         IN  {[g EXCEPT ![x] = v] :
                 g \in Assignments(c, fs \ {x}, nkeys),
                 v \in FieldValues(c, x, nkeys)}

\* The objects cls(...) can be given: a value of its type for every declared
\* field, no Timestamp and no etag.
NewObjects(c, nkeys) == Assignments(c, DOMAIN c.types, nkeys)

\* cls(...): a record constructed in memory.
Construct(h) ==
    /\ \E obj \in NewObjects(cls, scope.keys) :
          objs' = [objs EXCEPT ![h] = [live |-> TRUE, f |-> obj]]
    /\ last' = Quiet("construct")
    /\ written' = [written EXCEPT ![h] = <<>>]
    /\ UNCHANGED <<cls, scope, store, nextEtag, replaced>>

\* A caller assigns a field that is no key field.
Mutate(h) ==
    /\ objs[h].live
    /\ \E x \in DOMAIN cls.types \ {cls.pkf, cls.rkf} :
          \E v \in FieldValues(cls, x, scope.keys) \ {objs[h].f[x]} :
             objs' = [objs EXCEPT ![h].f[x] = v]
    /\ last' = Quiet("mutate")
    /\ UNCHANGED <<cls, scope, store, nextEtag, replaced, written>>

\* The RowKey arguments get() is given: a value of the row key field or
\* nothing; nothing for a type that has no row key field.
RowKeyArguments(c, nkeys) ==
    IF c.rkf = NoField THEN {NoneV}
    ELSE FieldValues(c, c.rkf, nkeys) \cup {NoneV}

\* cls.get(PartitionKey, RowKey).
Get(h) ==
    /\ \E pk \in FieldValues(cls, cls.pkf, scope.keys), fault \in scope.faults :
          \E rk \in RowKeyArguments(cls, scope.keys) :
             LET r == get(cls, store, objs[h].f, pk, rk, fault)
             IN  /\ objs' = [objs EXCEPT ![h] =
                                IF r.result = "record"
                                THEN [live |-> TRUE, f |-> r.obj] ELSE @]
                 /\ written' = [written EXCEPT ![h] =
                                   IF r.result = "record" THEN <<>> ELSE @]
                 /\ last' = Outcome("get", h, <<pk, rk>>,
                                    RowAt(store, get_key(pk, rk)), r)
    /\ UNCHANGED <<cls, scope, store, nextEtag, replaced>>

\* obj.save(new, require_etag).
Save(h) ==
    /\ objs[h].live
    /\ \E new \in BOOLEAN, require_etag \in BOOLEAN :
          LET r == save(cls, store, objs[h].f, new, require_etag, nextEtag)
              wrote == r.store # store
          IN  /\ wrote => nextEtag <= MaxEtag
              /\ store' = r.store
              /\ nextEtag' = IF wrote THEN nextEtag + 1 ELSE nextEtag
              /\ objs' = [objs EXCEPT ![h].f = r.obj]
              /\ last' = Outcome("save", h, <<new, require_etag>>,
                                 RowAt(store, EntityKey(r.calls[1].args[1])), r)
              /\ replaced' =
                    IF wrote /\ r.calls[1].call = "replace_entity"
                    THEN replaced \cup {objs[h].f["etag"]} ELSE replaced
              /\ written' =
                    IF wrote
                    THEN [written EXCEPT
                            ![h] = Append(@, EntityKey(r.calls[1].args[1]))]
                    ELSE written
    /\ UNCHANGED <<cls, scope>>

\* obj.delete().
Delete(h) ==
    /\ objs[h].live
    /\ \E fault \in scope.faults :
          LET r == delete(cls, store, objs[h].f, fault)
          IN  /\ store' = r.store
              /\ last' = Outcome("delete", h, <<>>,
                                 RowAt(store, r.calls[Len(r.calls)].args), r)
    /\ UNCHANGED <<cls, scope, nextEtag, objs, replaced, written>>

Next ==
    \/ \E h \in scope.callers : Construct(h)
    \/ \E h \in scope.callers : Mutate(h)
    \/ \E h \in scope.callers : Get(h)
    \/ \E h \in scope.callers : Save(h)
    \/ \E h \in scope.callers : Delete(h)

Spec == Init /\ [][Next]_vars

\* Two callers racing on one row, which an earlier writer may have left in
\* the table.
InitRace ==
    /\ cls = Note
    /\ scope = [callers |-> Handles, keys |-> 1, faults |-> {FALSE}]
    /\ store \in {NoRows}
                 \cup {Put(NoRows, SaveEntity(Note, obj), 0) :
                          obj \in NewObjects(Note, 1)}
    /\ nextEtag = 1
    /\ objs = [h \in Handles |-> [live |-> FALSE, f |-> Blank(cls)]]
    /\ last = Quiet("none")
    /\ replaced = {}
    /\ written = [h \in Handles |-> <<>>]

SpecRace == InitRace /\ [][Next]_vars

\* The values a query names: an int, two states, a UUID and a free text.
QueryValues ==
    {IntV(12), EnumV("init", StrV("init")), EnumV("stopping", StrV("stopping")),
     UuidV("u1"), StrV("a b")}

\* The field names a query uses: the declared fields and one that is none.
QueryFields(c) == DOMAIN c.types \cup {"owner"}

\* The queries on at most two fields.
Queries(c) ==
    LET lists == ListsUpTo(QueryValues, MaxValues)
        pairs == {p \in QueryFields(c) \X QueryFields(c) : p[1] # p[2]}
    IN  {<<>>}
        \cup {<<<<f, v>>>> : f \in QueryFields(c), v \in lists}
        \cup {<<<<p[1], v>>, <<p[2], w>>>> : p \in pairs, v \in lists, w \in lists}

\* A caller holds a query on a record type.
InitFilter ==
    /\ cls \in {Work, Note}
    /\ scope = [callers |-> {1}, keys |-> 1, faults |-> {FALSE}]
    /\ store = NoRows
    /\ nextEtag = 1
    /\ objs = [h \in Handles |-> [live |-> FALSE, f |-> Blank(cls)]]
    /\ \E q \in Queries(cls) : last = [Quiet("query") EXCEPT !.args = <<q>>]
    /\ replaced = {}
    /\ written = [h \in Handles |-> <<>>]

\* The caller compiles the query.
BuildFilters ==
    /\ last.op = "query"
    /\ LET r == build_filters(cls, last.args[1])
       IN  last' = [op |-> "build_filters", h |-> 0, args |-> last.args,
                    was |-> NoRow,
                    result |-> IF r.raises # "" THEN "raise" ELSE "tuple",
                    error |-> r.raises, calls |-> <<>>,
                    filter |-> r.filter, post |-> r.post]
    /\ UNCHANGED <<cls, scope, store, nextEtag, objs, replaced, written>>

NextFilter == BuildFilters

SpecFilter == InitFilter /\ [][NextFilter]_vars

\* The columns and the values of the rows and filters post_filter is given.
FilterColumns == {"PartitionKey", "data"}

FilterValues == {StrV("a b"), StrV("c"), IntV(12)}

\* The partial maps from the names of D to the members of R.
PartialMaps(D, R) == UNION {[d -> R] : d \in SUBSET D}

\* A caller holds a row and the filters left to the client, or none.
InitPostFilter ==
    /\ cls = Note
    /\ scope = [callers |-> {1}, keys |-> 1, faults |-> {FALSE}]
    /\ store = NoRows
    /\ nextEtag = 1
    /\ objs = [h \in Handles |-> [live |-> FALSE, f |-> Blank(cls)]]
    /\ \E value \in PartialMaps(FilterColumns, FilterValues) :
          \E filters \in {NoneV}
                \cup PartialMaps(FilterColumns,
                                 ListsUpTo(FilterValues, MaxValues)) :
             last = [Quiet("row") EXCEPT !.args = <<value, filters>>]
    /\ replaced = {}
    /\ written = [h \in Handles |-> <<>>]

\* The caller asks whether the row passes the filters.
PostFilter ==
    /\ last.op = "row"
    /\ last' = [last EXCEPT !.op = "post_filter",
                            !.result = IF post_filter(last.args[1], last.args[2])
                                       THEN "True" ELSE "False"]
    /\ UNCHANGED <<cls, scope, store, nextEtag, objs, replaced, written>>

NextPostFilter == PostFilter

SpecPostFilter == InitPostFilter /\ [][NextPostFilter]_vars

\* The tables search() is run on: none, one or two rows that saves wrote.
Tables(c) ==
    LET rows == {SaveEntity(c, obj) : obj \in NewObjects(c, 2)}
    IN  {NoRows}
        \cup {Put(NoRows, e, 1) : e \in rows}
        \cup {Put(Put(NoRows, p[1], 1), p[2], 2) :
                 p \in {p \in rows \X rows :
                          Before(EntityKey(p[1]), EntityKey(p[2]))}}

\* The lists a query gives a field: none, one or two values of its type.
SearchLists(c, f) ==
    LET vs == TypeValues(c.types[f]) \ {EnumV("stopping", StrV("stopping"))}
    IN  {<<>>} \cup {<<v>> : v \in vs}
        \cup {<<p[1], p[2]>> : p \in {p \in vs \X vs : p[1] # p[2]}}

\* The queries of search(): on no field, on one field, or on two.
SearchQueries(c) ==
    {<<>>}
    \cup UNION {{<<<<f, v>>>> : v \in SearchLists(c, f)} : f \in DOMAIN c.types}
    \cup UNION {{<<<<p[1], v>>, <<p[2], w>>>> :
                    v \in SearchLists(c, p[1]), w \in SearchLists(c, p[2])} :
                   p \in {p \in (DOMAIN c.types) \X (DOMAIN c.types) : p[1] # p[2]}}

\* The expressions a caller adds to a query: on a field that is no key.
RawFilters(c) ==
    {NoneV,
     IF "state" \in DOMAIN c.types THEN StrV("state eq 'init'")
     ELSE StrV("data eq 'a'")}

\* A caller holds the arguments of a search on a table that saves filled.
InitSearch ==
    /\ cls \in RecordTypes
    /\ scope = [callers |-> {1}, keys |-> 2, faults |-> {FALSE}]
    /\ store \in Tables(cls)
    /\ nextEtag = 1
    /\ objs = [h \in Handles |-> [live |-> FALSE, f |-> Blank(cls)]]
    /\ \E query \in SearchQueries(cls), unchecked \in RawFilters(cls),
          num_results \in {NoneV, IntV(1)} :
          last = [Quiet("arguments")
                     EXCEPT !.args = <<query, unchecked, num_results>>]
    /\ replaced = {}
    /\ written = [h \in Handles |-> <<>>]

\* cls.search(query, raw_unchecked_filter, num_results).
Search ==
    /\ last.op = "arguments"
    /\ LET r == search(cls, store, last.args[1], last.args[2], last.args[3])
       IN  last' = [op |-> "search", h |-> 0, args |-> last.args, was |-> NoRow,
                    result |-> r.result, error |-> r.error, calls |-> r.calls,
                    entries |-> r.entries]
    /\ UNCHANGED <<cls, scope, store, nextEtag, objs, replaced, written>>

NextSearch == Search

SpecSearch == InitSearch /\ [][NextSearch]_vars

\* A caller holds a record of any type, the table empty.
InitRoundTrip ==
    /\ cls \in RecordTypes \cup {Batch}
    /\ scope = [callers |-> {1}, keys |-> 2, faults |-> {FALSE}]
    /\ store = NoRows
    /\ nextEtag = 1
    /\ \E obj \in NewObjects(cls, 2) :
          objs = [h \in Handles |->
                    IF h = 1 THEN [live |-> TRUE, f |-> obj]
                    ELSE [live |-> FALSE, f |-> Blank(cls)]]
    /\ last = Quiet("object")
    /\ replaced = {}
    /\ written = [h \in Handles |-> <<>>]

\* obj.save(new), then cls.load() of the row the store holds for it.
SaveAndLoad(h) ==
    /\ objs[h].live
    /\ last.op = "object"
    /\ \E new \in BOOLEAN :
          LET r == save(cls, store, objs[h].f, new, FALSE, nextEtag)
              data == get_entity(r.store, EntityKey(r.calls[1].args[1]))
          IN  /\ store' = r.store
              /\ nextEtag' = nextEtag + 1
              /\ objs' = [objs EXCEPT ![h].f = r.obj]
              /\ last' = [op |-> "save_load", h |-> h, args |-> <<new>>,
                          was |-> NoRow,
                          result |-> IF LoadRaises(cls, data) \/ LoadInvalid(cls, data)
                                     THEN "raise" ELSE "record",
                          error |-> IF LoadRaises(cls, data) THEN "Exception"
                                    ELSE IF LoadInvalid(cls, data)
                                    THEN "ValidationError" ELSE "",
                          calls |-> r.calls,
                          record |-> load(cls, data)]
    /\ UNCHANGED <<cls, scope, replaced, written>>

NextRoundTrip == \E h \in scope.callers : SaveAndLoad(h)

SpecRoundTrip == InitRoundTrip /\ [][NextRoundTrip]_vars

(***************************************************************************)
(* pool_resize: scale_up().                                                *)
(***************************************************************************)
\* The largest nodes_needed, pool.max_size and scaleset_max_size(image) drawn.
MaxNodes == 5

MaxPoolSize == 3

MaxImageSize == 3

\* The most scalesets the pool has when scale_up is called.
MaxScalesets == 2

\* ScalesetState, and the members ScalesetState.available() holds.
ScalesetStates == {"running", "halt"}

available == {"running"}

\* min() of lines 20, 37 and 41-43.
Min(a, b) == IF a <= b THEN a ELSE b

\* Lines 16-31 for one scaleset. Line 18 calls scaleset.max_size, line 20
\* hands it to min() uncalled: where it is a method min() raises TypeError,
\* where it is a number the call of line 18 raises TypeError.
scale_up_existing(pool, scaleset, image_max, is_method) ==
    IF scaleset.state \notin available THEN "continue"
    ELSE IF ~(scaleset.size < pool.max_size) THEN "continue"
    ELSE IF ~is_method THEN "TypeError"
    ELSE IF scaleset.size < image_max THEN "TypeError"
    ELSE "continue"

\* math.ceil(nodes_needed / size) of lines 35-38, size not 0.
ceil_div(nodes_needed, size) ==
    IF nodes_needed % size = 0 THEN nodes_needed \div size
    ELSE (nodes_needed \div size) + 1

\* A loop body that asks for a full scaleset whatever is still needed.
max_nodes_scaleset_full(image_max, pool_max, nodes_needed) ==
    Min(image_max, pool_max)

\* Lines 41-43: the size of the next scaleset.
max_nodes_scaleset(image_max, pool_max, nodes_needed) ==
    Min(Min(image_max, pool_max), nodes_needed)

\* The scalesets scale_up may be handed.
Scalesets ==
    LET one == [state : ScalesetStates, size : {1, MaxPoolSize}]
    IN  UNION {[1..n -> one] : n \in 0..MaxScalesets}

\* scale_up(pool, scalesets, nodes_needed) has been called.
InitScaleUp ==
    /\ cls = Note
    /\ scope = [callers |-> {1}, keys |-> 1, faults |-> {FALSE}]
    /\ store = NoRows
    /\ nextEtag = 1
    /\ objs = [h \in Handles |-> [live |-> FALSE, f |-> Blank(cls)]]
    /\ replaced = {}
    /\ written = [h \in Handles |-> <<>>]
    /\ \E pool_max \in 0..MaxPoolSize, image_max \in 1..MaxImageSize,
          n \in 0..MaxNodes, scalesets \in Scalesets, is_method \in BOOLEAN :
          last = [op |-> "scale_up", pc |-> "scalesets", i |-> 1,
                  pool |-> [max_size |-> pool_max], image_max |-> image_max,
                  is_method |-> is_method, scalesets |-> scalesets,
                  nodes_needed |-> n, needed |-> -1, left |-> 0,
                  created |-> <<>>, error |-> ""]

\* One pass of the loop of lines 15-31.
ExistingScaleset ==
    /\ last.op = "scale_up" /\ last.pc = "scalesets"
    /\ last.i <= Len(last.scalesets)
    /\ LET r == scale_up_existing(last.pool, last.scalesets[last.i],
                                  last.image_max, last.is_method)
       IN  last' = IF r = "continue" THEN [last EXCEPT !.i = last.i + 1]
                   ELSE [last EXCEPT !.pc = "raise", !.error = r]
    /\ UNCHANGED <<cls, scope, store, nextEtag, objs, replaced, written>>

\* Lines 33-39: the loop over the scalesets has ended; the range is built.
BeginCreation ==
    /\ last.op = "scale_up" /\ last.pc = "scalesets"
    /\ last.i > Len(last.scalesets)
    /\ LET size == Min(last.image_max, last.pool.max_size)
       IN  last' = IF ~(last.nodes_needed > 0)
                   THEN [last EXCEPT !.pc = "done", !.needed = last.nodes_needed]
                   ELSE IF size = 0
                   THEN [last EXCEPT !.pc = "raise", !.needed = last.nodes_needed,
                                     !.error = "ZeroDivisionError"]
                   ELSE [last EXCEPT !.pc = "create", !.needed = last.nodes_needed,
                                     !.left = ceil_div(last.nodes_needed, size)]
    /\ UNCHANGED <<cls, scope, store, nextEtag, objs, replaced, written>>

\* Lines 40-56: one pass of the creation loop.
CreateScaleset ==
    /\ last.op = "scale_up" /\ last.pc = "create"
    /\ LET size == max_nodes_scaleset(last.image_max, last.pool.max_size,
                                      last.nodes_needed)
       IN  last' = [last EXCEPT
                      !.created = Append(last.created,
                                         [size |-> size, saved |-> TRUE,
                                          auth |-> NoneV]),
                      !.nodes_needed = last.nodes_needed - size,
                      !.left = last.left - 1,
                      !.pc = IF last.left = 1 THEN "done" ELSE "create"]
    /\ UNCHANGED <<cls, scope, store, nextEtag, objs, replaced, written>>

NextScaleUp == ExistingScaleset \/ BeginCreation \/ CreateScaleset

SpecScaleUp == InitScaleUp /\ [][NextScaleUp]_vars

(***************************************************************************)
(* Properties.                                                             *)
(***************************************************************************)
\* The key save() resolves for the object of caller h.
SaveKey(h) == EntityKey(SaveEntity(cls, objs[h].f))

\* The step is caller h's save(new, require_etag).
SaveStep(h, new, require_etag) ==
    /\ objs[h].live
    /\ last'.op = "save" /\ last'.h = h /\ last'.args = <<new, require_etag>>

\* C1: with a handle holding token T1 of a row whose token another writer
\* has since changed, save(new=false, require_etag=true) fails and leaves the
\* stored row and its token as they were, save(new=false,
\* require_etag=false) succeeds and overwrites the row with the handle's
\* entity under a fresh token; and no token is ever accepted by two
\* conditional replaces.
C1_ConditionalReplace ==
    [][\A h \in Handles :
          /\ \A require_etag \in BOOLEAN :
                (/\ SaveStep(h, FALSE, require_etag)
                 /\ Truthy(objs[h].f["etag"])
                 /\ SaveKey(h) \in DOMAIN store
                 /\ store[SaveKey(h)].etag # objs[h].f["etag"])
                => IF require_etag
                   THEN /\ last'.result # "None"
                        /\ store' = store
                        /\ objs' = objs
                   ELSE /\ last'.result = "None"
                        /\ store'[SaveKey(h)].cols = SaveEntity(cls, objs[h].f)
                        /\ store'[SaveKey(h)].etag \notin
                              {store[SaveKey(h)].etag, objs[h].f["etag"]}
                        /\ objs'[h].f["etag"] = store'[SaveKey(h)].etag
          /\ (/\ SaveStep(h, FALSE, TRUE)
              /\ last'.calls[1] = Call("replace_entity",
                                       <<SaveEntity(cls, objs[h].f),
                                         objs[h].f["etag"]>>, "ok"))
             => objs[h].f["etag"] \notin replaced]_vars

\* A stale conditional save has just been refused, after another writer's
\* conditional save with the same token went through.
C1_Witness ==
    /\ last.op = "save" /\ last.args = <<FALSE, TRUE>>
    /\ last.result = "raise" /\ last.error = "AzureHttpError(412)"
    /\ last.was.etag # objs[last.h].f["etag"]
    /\ objs[last.h].f["etag"] \in replaced

\* C2: a conflict (an insert on a key that has a row, a conditional replace
\* with a stale token) comes back from save() as a returned Error, never as
\* a raised exception.
C2_ConflictsAreReturned ==
    (/\ last.op = "save"
     /\ last.calls[1].outcome \in {"AzureConflictHttpError", "AzureHttpError(412)"})
    => last.result = "Error"

\* C3: save(new=true) on a key that has a row returns UNABLE_TO_CREATE and
\* leaves the row, its columns and its token, and every other row unchanged.
C3_DuplicateCreate ==
    [][\A h \in Handles, require_etag \in BOOLEAN :
          (SaveStep(h, TRUE, require_etag) /\ SaveKey(h) \in DOMAIN store)
          => /\ last'.result = "Error"
             /\ last'.error = "UNABLE_TO_CREATE"
             /\ store' = store]_vars

\* A create has just been refused for a row that exists.
C3_Witness ==
    /\ last.op = "save" /\ last.args[1]
    /\ last.result = "Error" /\ last.error = "UNABLE_TO_CREATE"
    /\ last.was # NoRow
    /\ RowAt(store, EntityKey(last.calls[1].args[1])) = last.was

\* C4, as claimed: save(new=false, require_etag=true) replaces a stored row
\* only if the handle's token equals the row's token; in every other case,
\* that of a handle without a token included, the store is left unchanged.
C4_TokenCheckedWritesCompare ==
    [][\A h \in Handles :
          (/\ SaveStep(h, FALSE, TRUE)
           /\ SaveKey(h) \in DOMAIN store
           /\ store[SaveKey(h)].etag # objs[h].f["etag"])
          => store' = store]_vars

\* C4, amended: save(new=false, require_etag=true) replaces a stored row only
\* if the handle's token equals the row's token or the handle has no token;
\* a handle with another token leaves the store unchanged, a handle without
\* a token overwrites the row.
C4_TokenCheckedWrites ==
    [][\A h \in Handles :
          (SaveStep(h, FALSE, TRUE) /\ SaveKey(h) \in DOMAIN store)
          => IF objs[h].f["etag"] = NoneV
             THEN /\ store'[SaveKey(h)].cols = SaveEntity(cls, objs[h].f)
                  /\ store'[SaveKey(h)].etag # store[SaveKey(h)].etag
             ELSE IF objs[h].f["etag"] = store[SaveKey(h)].etag
             THEN store'[SaveKey(h)].cols = SaveEntity(cls, objs[h].f)
             ELSE store' = store]_vars

\* A handle without a token has just written over a row that was there.
C4_Witness ==
    /\ last.op = "save" /\ last.args = <<FALSE, TRUE>>
    /\ last.was # NoRow
    /\ last.calls[1].args[2] = NoneV
    /\ last.calls[1].outcome = "ok"
    /\ store[EntityKey(last.calls[1].args[1])].etag # last.was.etag

\* The calls of a given name among the calls of the last operation.
IsQueueUpdate(c) == c.call = "queue_update"

IsAddEvent(c) == c.call = "add_event"

IsTelemetry(c) == c.call = "track_event_filtered"

IsStoreWrite(c) ==
    c.call \in {"insert_entity", "replace_entity", "insert_or_replace_entity"}

\* The last operation is a save whose store write went through.
SaveWrote ==
    /\ last.op = "save"
    /\ IsStoreWrite(last.calls[1]) /\ last.calls[1].outcome = "ok"

\* The row the last save handed to the store.
SavedRow == last.calls[1].args[1]

\* The fields of the record type that are no key fields.
PlainFields == DOMAIN cls.types \ {cls.pkf, cls.rkf}

\* C5: all saves of one record, between which only fields that are no key
\* fields change, write at one and the same (PartitionKey, RowKey), and a
\* written row has neither a key field nor Timestamp among its columns.
C5_KeyImmutability ==
    /\ \A h \in Handles :
          \A i, j \in 1..Len(written[h]) : written[h][i] = written[h][j]
    /\ SaveWrote
       => /\ DOMAIN SavedRow \cap {cls.pkf, cls.rkf, "Timestamp"} = {}
          /\ store[EntityKey(SavedRow)].cols = SavedRow
          /\ written[last.h][Len(written[last.h])] = EntityKey(SavedRow)

\* A record has been saved a second time, a field that is no key field
\* changed since the first.
C5_Witness ==
    /\ SaveWrote
    /\ Len(written[last.h]) >= 2
    /\ \E f \in PlainFields \cap DOMAIN SavedRow \cap DOMAIN last.was.cols :
          SavedRow[f] # last.was.cols[f]

\* C6: a save that succeeds on a record whose state is in needs_work()
\* enqueues exactly one message, with the type's update type, the resolved
\* keys, no method and a delay of 30 seconds for stopping, stop or shutdown
\* and of 5 seconds otherwise; any other save enqueues nothing.
C6_DispatcherGating ==
    last.op = "save"
    => LET obj == objs[last.h].f
           state == Attr(cls, obj, "state")
           pending == "state" \in DOMAIN cls.types /\ state \in needs_work
           delay == IF state.name \in {"stopping", "stop", "shutdown"}
                    THEN 30 ELSE 5
       IN  SelectSeq(last.calls, IsQueueUpdate) =
              IF last.result = "None" /\ pending
              THEN <<Call("queue_update",
                          <<cls.name, resolve(obj[cls.pkf]),
                            resolve(obj[RowKeyField(cls)]), NoneV, delay>>,
                          "ok")>>
              ELSE <<>>

\* A record in a stopping state has been saved and queued.
C6_Witness ==
    /\ last.op = "save" /\ last.result = "None"
    /\ objs[last.h].f["state"].name = "stopping"
    /\ Len(SelectSeq(last.calls, IsQueueUpdate)) = 1

\* The key delete() resolves for the object of caller h.
DeleteKey(h) ==
    <<resolve(objs[h].f[cls.pkf]), resolve(objs[h].f[RowKeyField(cls)])>>

\* The record has event data: a field of event_include that is set.
HasEventData(obj) == \E f \in cls.event_include \cap Fields(cls) : obj[f] # NoneV

\* C7, as claimed: a delete() of a key that has no row returns without error
\* and emits the dashboard event exactly once.
C7_DeleteAbsentEmitsOnce ==
    (/\ last.op = "delete"
     /\ last.was = NoRow
     /\ last.calls[Len(last.calls)].outcome = "AzureMissingResourceHttpError")
    => /\ last.result = "None"
       /\ Len(SelectSeq(last.calls, IsAddEvent)) = 1

\* C7, amended: a delete() of a key that has no row returns without error,
\* leaves the store unchanged and emits the dashboard event, before the
\* store's delete, exactly once when the record has event data and not at
\* all when it has none; after a delete() the key has no row, and a second
\* delete() in a row leaves the store as the first left it.
C7_DeleteIdempotent ==
    [][\A h \in Handles :
          (/\ objs[h].live
           /\ last'.op = "delete" /\ last'.h = h
           /\ last'.error # StoreFault)
          => /\ last'.result = "None"
             /\ DeleteKey(h) \notin DOMAIN store'
             /\ DeleteKey(h) \notin DOMAIN store => store' = store
             /\ (last.op = "delete" /\ last.h = h /\ last.result = "None")
                => store' = store
             /\ last'.calls =
                   IF HasEventData(objs[h].f)
                   THEN <<Call("add_event", <<cls.name, event(cls, objs[h].f)>>, "ok"),
                          last'.calls[2]>>
                   ELSE <<last'.calls[1]>>
             /\ last'.calls[Len(last'.calls)].call = "delete_entity"]_vars

\* A delete() of a key that has no row has returned and sent its event.
C7_Witness ==
    /\ last.op = "delete" /\ last.result = "None"
    /\ last.was = NoRow
    /\ last.calls[Len(last.calls)].outcome = "AzureMissingResourceHttpError"
    /\ Len(SelectSeq(last.calls, IsAddEvent)) = 1

\* The place of a call in the order save() is to keep.
SaveRank(c) ==
    IF IsStoreWrite(c) THEN 1
    ELSE IF c.call = "self.etag" THEN 2
    ELSE IF IsQueueUpdate(c) THEN 3
    ELSE 4

\* C8: in a save, the store write comes first; then the record's token is
\* set to the token the store returned; then the dispatcher; the dashboard
\* event and the telemetry only after the dispatcher; and nothing follows a
\* store write that failed.
C8_SaveOrdering ==
    last.op = "save"
    => /\ IsStoreWrite(last.calls[1])
       /\ \A i, j \in 1..Len(last.calls) :
             i < j => \/ SaveRank(last.calls[i]) < SaveRank(last.calls[j])
                      \/ /\ SaveRank(last.calls[i]) = 4
                         /\ SaveRank(last.calls[j]) = 4
       /\ last.calls[1].outcome # "ok" => Len(last.calls) = 1
       /\ last.calls[1].outcome = "ok"
          => /\ last.calls[2] =
                   Call("self.etag", <<store[EntityKey(SavedRow)].etag>>, "ok")
             /\ objs[last.h].f["etag"] = store[EntityKey(SavedRow)].etag

\* A save has written, set the token, queued, sent telemetry and the event.
C8_Witness ==
    /\ SaveWrote
    /\ Len(SelectSeq(last.calls, IsQueueUpdate)) = 1
    /\ Len(SelectSeq(last.calls, IsTelemetry)) = 1
    /\ Len(SelectSeq(last.calls, IsAddEvent)) = 1
    /\ Len(last.calls) = 5

\* C9, as claimed: every save whose store write succeeds sends exactly one
\* dashboard event, whatever the event data and whatever the dispatcher does.
C9_EventUnconditional ==
    SaveWrote => Len(SelectSeq(last.calls, IsAddEvent)) = 1

\* C9, amended: a save whose store write succeeds and whose dispatcher does
\* not raise sends exactly one dashboard event, for the record's table, when
\* the record has event data, and none when it has none; a save whose
\* dispatcher raises, or whose store write fails, sends none.
C9_EventWhenData ==
    last.op = "save"
    => LET obj == objs[last.h].f
       IN  SelectSeq(last.calls, IsAddEvent) =
              IF SaveWrote /\ last.result = "None" /\ HasEventData(obj)
              THEN <<Call("add_event",
                          <<cls.name,
                            [f \in {f \in cls.event_include \cap Fields(cls) :
                                      obj[f] # NoneV} |-> JsonCycle(obj[f])]>>,
                          "ok")>>
              ELSE <<>>

\* A save has written a record that has no event data, and sent no event.
C9_Witness ==
    /\ SaveWrote /\ last.result = "None"
    /\ ~HasEventData(objs[last.h].f)
    /\ SelectSeq(last.calls, IsAddEvent) = <<>>

\* The kind of a list of values: of ints, of enumerated values, of safe
\* strings, of free text, or mixed.
ListKind(values) ==
    IF values = <<>> THEN "empty"
    ELSE IF \A i \in DOMAIN values : values[i].t = "int" THEN "int"
    ELSE IF \A i \in DOMAIN values : values[i].t = "enum" THEN "enum"
    ELSE IF \A i \in DOMAIN values : values[i].t = "uuid" THEN "safe"
    ELSE IF \A i \in DOMAIN values : values[i].t = "str" THEN "text"
    ELSE "mixed"

\* The equality clause the claim gives a value.
ExpectedClause(name, x) ==
    CASE x.t = "int" -> name \o " eq " \o IntStr(x.n)
      [] x.t = "enum" -> name \o " eq '" \o x.name \o "'"
      [] OTHER -> name \o " eq '" \o x.s \o "'"

RECURSIVE ExpectedOr(_, _)
\* The clauses of one field joined by or.
ExpectedOr(name, values) ==
    IF Len(values) = 1 THEN ExpectedClause(name, values[1])
    ELSE ExpectedClause(name, values[1]) \o " or " \o ExpectedOr(name, Tail(values))

\* The store's name of a field of the record type.
StoreName(f) ==
    IF f = cls.pkf THEN "PartitionKey" ELSE IF f = cls.rkf THEN "RowKey" ELSE f

RECURSIVE ExpectedAnd(_)
\* The groups of the fields of q that have clauses, in the order of q,
\* joined by and; "" when no field has one.
ExpectedAnd(q) ==
    IF q = <<>> THEN ""
    ELSE LET rest == ExpectedAnd(Tail(q))
             clauses == ExpectedOr(StoreName(q[1][1]), q[1][2])
             group == IF Len(q[1][2]) > 1 THEN "(" \o clauses \o ")" ELSE clauses
         IN  IF ListKind(q[1][2]) \notin {"int", "enum", "safe"} THEN rest
             ELSE IF rest = "" THEN group
             ELSE group \o " and " \o rest

\* C10: for a query on known fields whose lists are each empty, all ints,
\* all enumerated values, all safe strings or all free text, the filter
\* expression is the and of the groups of the fields of the first three
\* kinds in the order of the query, a group being the or of one equality
\* clause for each value (an enumerated value by its name, a key field as
\* PartitionKey or RowKey) and in brackets exactly when it has more than one
\* clause; the expression is absent when no field has a clause; and the
\* filters left to the client are exactly the free-text fields, each under
\* its store name with its whole list.
C10_FilterCompilation ==
    (/\ last.op = "build_filters"
     /\ \A i \in DOMAIN last.args[1] :
           /\ last.args[1][i][1] \in Fields(cls)
           /\ ListKind(last.args[1][i][2]) # "mixed")
    => LET q == last.args[1]
           text == {i \in DOMAIN q : ListKind(q[i][2]) = "text"}
       IN  /\ last.result = "tuple"
           /\ last.filter = IF ExpectedAnd(q) = "" THEN NoneV
                            ELSE StrV(ExpectedAnd(q))
           /\ DOMAIN last.post = {StoreName(q[i][1]) : i \in text}
           /\ \A i \in text : last.post[StoreName(q[i][1])] = q[i][2]

\* A query on two states and on a free-text partition key has been compiled
\* into one group in brackets and one filter left to the client.
C10_Witness ==
    /\ last.op = "build_filters"
    /\ last.args[1] = <<<<"state", <<EnumV("init", StrV("init")),
                                     EnumV("stopping", StrV("stopping"))>>>>,
                        <<"group", <<StrV("a b")>>>>>>
    /\ last.filter = StrV("(state eq 'init' or state eq 'stopping')")
    /\ last.post = [n \in {"PartitionKey"} |-> <<StrV("a b")>>]

\* The row and the filters of the last post_filter.
FilteredRow == last.args[1]

RowFilters == last.args[2]

\* C11: post_filter(row, filters) is true exactly when every field of the
\* filters is a column of the row whose value is in the field's list; a row
\* that lacks a field of the filters fails, a row with a value outside a
\* list fails, and no filters, None or empty, pass every row.
C11_PostFilter ==
    last.op = "post_filter"
    => /\ last.result \in {"True", "False"}
       /\ RowFilters = NoneV => last.result = "True"
       /\ RowFilters # NoneV
          => /\ (last.result = "True")
                <=> \A f \in DOMAIN RowFilters :
                       /\ f \in DOMAIN FilteredRow
                       /\ \E i \in 1..Len(RowFilters[f]) :
                             RowFilters[f][i] = FilteredRow[f]
             /\ (\E f \in DOMAIN RowFilters : f \notin DOMAIN FilteredRow)
                => last.result = "False"
             /\ DOMAIN RowFilters = {} => last.result = "True"

\* A row that has one filtered field with a listed value and lacks the
\* other filtered field has failed.
C11_Witness ==
    /\ last.op = "post_filter"
    /\ RowFilters # NoneV
    /\ DOMAIN RowFilters = {"PartitionKey", "data"}
    /\ DOMAIN FilteredRow = {"PartitionKey"}
    /\ RowFilters["PartitionKey"] = <<StrV("c"), StrV("a b")>>
    /\ FilteredRow["PartitionKey"] = StrV("a b")
    /\ last.result = "False"

\* The arguments of the last search.
SearchQuery == last.args[1]

SearchRaw == last.args[2]

SearchLimit == last.args[3]

\* The value a row holds for a value of a query that the store compares.
Wire(v) ==
    CASE v.t = "enum" -> StrV(v.name)
      [] v.t = "uuid" -> StrV(v.s)
      [] OTHER -> v

\* The row meets the part of the query the store is given: for every field
\* with a list of ints, enumerated values or safe strings one of the values,
\* and the caller's own expression.
MeetsServerPart(row) ==
    /\ \A i \in DOMAIN SearchQuery :
          ListKind(SearchQuery[i][2]) \in {"int", "enum", "safe"}
          => /\ StoreName(SearchQuery[i][1]) \in DOMAIN row
             /\ \E j \in DOMAIN SearchQuery[i][2] :
                   row[StoreName(SearchQuery[i][1])] = Wire(SearchQuery[i][2][j])
    /\ SearchRaw = StrV("state eq 'init'")
       => "state" \in DOMAIN row /\ row["state"] = StrV("init")
    /\ SearchRaw = StrV("data eq 'a'")
       => "data" \in DOMAIN row /\ row["data"] = StrV("a")

\* The row meets the part of the query left to the client.
MeetsClientPart(row) ==
    \A i \in DOMAIN SearchQuery :
       ListKind(SearchQuery[i][2]) = "text"
       => /\ StoreName(SearchQuery[i][1]) \in DOMAIN row
          /\ \E j \in DOMAIN SearchQuery[i][2] :
                row[StoreName(SearchQuery[i][1])] = SearchQuery[i][2][j]

\* The rows of the store in its order.
StoredRows == [i \in 1..Cardinality(DOMAIN store) |->
                 get_entity(store, InOrder(DOMAIN store)[i])]

\* The rows the store answers: those that meet its part, up to the limit.
AnsweredRows ==
    LET met == SelectSeq(StoredRows, MeetsServerPart)
    IN  IF SearchLimit = NoneV \/ SearchLimit.n >= Len(met) THEN met
        ELSE SubSeq(met, 1, SearchLimit.n)

\* The expression the store is to be given: the compiled one and the
\* caller's own, each in brackets and joined by and when there are both.
ExpectedExpression ==
    IF SearchRaw = NoneV
    THEN IF ExpectedAnd(SearchQuery) = "" THEN NoneV
         ELSE StrV(ExpectedAnd(SearchQuery))
    ELSE IF ExpectedAnd(SearchQuery) = "" THEN SearchRaw
         ELSE StrV("(" \o ExpectedAnd(SearchQuery) \o ") and ("
                       \o SearchRaw.s \o ")")

\* C12: search(query, raw_unchecked_filter, num_results) on known fields
\* asks the store once, with the compiled expression and-combined with the
\* raw one and with the limit, and returns, in the store's order, exactly
\* the records loaded from the answered rows that pass the filters left to
\* the client; the others are dropped without error; every record returned
\* has, for every field the query gives a non-empty list, a value of the
\* list; and there are never more records than num_results.
C12_SearchResult ==
    last.op = "search"
    => /\ last.result = "list"
       /\ last.calls = <<Call("query_entities",
                              <<ExpectedExpression, SearchLimit>>, "ok")>>
       /\ LET kept == SelectSeq(AnsweredRows, MeetsClientPart)
          IN  last.entries = [i \in DOMAIN kept |-> load(cls, kept[i])]
       /\ \A n \in DOMAIN last.entries : \A i \in DOMAIN SearchQuery :
             SearchQuery[i][2] # <<>>
             => \E j \in DOMAIN SearchQuery[i][2] :
                   last.entries[n][SearchQuery[i][1]] = SearchQuery[i][2][j]
       /\ SearchLimit # NoneV => Len(last.entries) <= SearchLimit.n

\* A search on two UUIDs and a free text with an expression of the caller's
\* has returned one of the two rows of the table.
C12_Witness ==
    /\ last.op = "search" /\ last.result = "list"
    /\ cls = Work
    /\ Cardinality(DOMAIN store) = 2
    /\ SearchQuery = <<<<"id", <<UuidV("u1"), UuidV("u2")>>>>,
                       <<"group", <<StrV("a")>>>>>>
    /\ last.calls[1].args[1] =
          StrV("((RowKey eq 'u1' or RowKey eq 'u2')) and (state eq 'init')")
    /\ Len(last.entries) = 1
    /\ last.entries[1]["id"] = UuidV("u2")

\* C13: get(PartitionKey, RowKey) looks the row up at (resolve(PartitionKey),
\* resolve(RowKey)) whenever a RowKey is given, the integer 0 included, and
\* at (resolve(PartitionKey), resolve(PartitionKey)) only when it is left
\* out; a row that is not there gives None and no error, and any other
\* failure of the store reaches the caller.
C13_PointLookup ==
    last.op = "get"
    => /\ last.calls[1].call = "get_entity"
       /\ last.calls[1].args =
             IF last.args[2] = NoneV
             THEN <<resolve(last.args[1]), resolve(last.args[1])>>
             ELSE <<resolve(last.args[1]), resolve(last.args[2])>>
       /\ last.calls[1].outcome = "AzureMissingResourceHttpError"
          => last.result = "None" /\ last.error = ""
       /\ last.calls[1].outcome = StoreFault
          => last.result = "raise" /\ last.error = StoreFault

\* C14: the row save() writes for a record loads into a record that equals
\* it field for field, the token and the timestamp apart; the fields saved
\* as JSON text, a dict or a list, come back as the dict or the list.
C14_RoundTrip ==
    last.op = "save_load"
    => /\ last.result = "record"
       /\ \A f \in DOMAIN cls.types : last.record[f] = objs[last.h].f[f]

\* The key the Key Resolver gives the typed key values of caller h's record.
ResolvedKey(h) ==
    <<resolve(objs[h].f[cls.pkf]), resolve(objs[h].f[RowKeyField(cls)])>>

\* C15: the (PartitionKey, RowKey) save() writes, the pair delete() removes,
\* the pair put in the queued message and the pair get() looks up for the
\* same key values are one pair: resolve() of the typed key values, which
\* for an enumerated key is its name.
C15_OneKeyOnEveryPath ==
    /\ last.op = "save"
       => /\ EntityKey(last.calls[1].args[1]) = ResolvedKey(last.h)
          /\ \A i \in DOMAIN last.calls :
                last.calls[i].call = "queue_update"
                => <<last.calls[i].args[2], last.calls[i].args[3]>>
                      = ResolvedKey(last.h)
    /\ last.op = "delete"
       => last.calls[Len(last.calls)].args = ResolvedKey(last.h)
    /\ (last.op = "get" /\ Truthy(last.args[2]))
       => last.calls[1].args = <<resolve(last.args[1]), resolve(last.args[2])>>

\* The query of the last build_filters.
CompiledQuery == last.args[1]

\* The fields of the query whose lists are left to the client: free text
\* and mixed lists.
DeferredItems ==
    {i \in DOMAIN CompiledQuery :
        ListKind(CompiledQuery[i][2]) \in {"text", "mixed"}}

\* The result has the clauses of the lists of ints, enumerated values and
\* safe strings only, and the deferred lists under their store names.
DeferredToClient ==
    /\ last.result = "tuple"
    /\ last.filter = IF ExpectedAnd(CompiledQuery) = "" THEN NoneV
                     ELSE StrV(ExpectedAnd(CompiledQuery))
    /\ DOMAIN last.post = {StoreName(CompiledQuery[i][1]) : i \in DeferredItems}
    /\ \A i \in DeferredItems :
          last.post[StoreName(CompiledQuery[i][1])] = CompiledQuery[i][2]

\* The query is on declared fields only.
OnDeclaredFields ==
    \A i \in DOMAIN CompiledQuery : CompiledQuery[i][1] \in Fields(cls)

\* A list that begins with an int or an enumerated value and holds a value
\* of another kind.
BeginsTypedAndMixed(values) ==
    /\ values # <<>>
    /\ values[1].t \in {"int", "enum"}
    /\ \E j \in DOMAIN values : values[j].t # values[1].t

\* C16, as claimed: on declared fields build_filters never fails, and every
\* non-empty list that is not all ints, all enumerated values or all safe
\* strings is left to the client under its store name, without a clause.
C16_ClassificationTotal ==
    (last.op = "build_filters" /\ OnDeclaredFields) => DeferredToClient

\* C16, amended: on declared fields build_filters fails, with TypeError,
\* exactly when some list begins with an int or an enumerated value and
\* holds a value of another kind; otherwise it returns, and every non-empty
\* list that is not all ints, all enumerated values or all safe strings is
\* left to the client under its store name, without a clause.
C16_Classification ==
    (last.op = "build_filters" /\ OnDeclaredFields)
    => IF \E i \in DOMAIN CompiledQuery : BeginsTypedAndMixed(CompiledQuery[i][2])
       THEN last.result = "raise" /\ last.error = "TypeError"
       ELSE DeferredToClient

\* A list of a free text and an int has been left to the client.
C16_Witness ==
    /\ last.op = "build_filters"
    /\ CompiledQuery = <<<<"state", <<StrV("a b"), IntV(12)>>>>>>
    /\ last.result = "tuple"
    /\ last.filter = NoneV
    /\ last.post = [n \in {"state"} |-> <<StrV("a b"), IntV(12)>>]

\* C17, as claimed: every delete() sends the dashboard event of the record
\* and then calls the store's delete, also when that call fails for another
\* reason than not-found, and that failure reaches the caller.
C17_DeleteEmitsFirst ==
    last.op = "delete"
    => /\ Len(last.calls) = 2
       /\ last.calls[1].call = "add_event"
       /\ last.calls[2].call = "delete_entity"
       /\ last.calls[2].outcome = StoreFault
          => last.result = "raise" /\ last.error = StoreFault

\* C17, amended: every delete() of a record that has event data sends the
\* dashboard event and then calls the store's delete, also when that call
\* fails for another reason than not-found; a record without event data
\* sends no event; and the failure reaches the caller.
C17_DeleteOrdering ==
    last.op = "delete"
    => LET obj == objs[last.h].f
           removal == last.calls[Len(last.calls)]
       IN  /\ removal.call = "delete_entity"
           /\ removal.args = ResolvedKey(last.h)
           /\ last.calls =
                 IF HasEventData(obj)
                 THEN <<Call("add_event", <<cls.name, event(cls, obj)>>, "ok"),
                        removal>>
                 ELSE <<removal>>
           /\ removal.outcome = StoreFault
              => last.result = "raise" /\ last.error = StoreFault
           /\ removal.outcome # StoreFault => last.result = "None"

\* A delete() whose store call failed has sent the event before it.
C17_Witness ==
    /\ last.op = "delete"
    /\ last.result = "raise" /\ last.error = StoreFault
    /\ Len(last.calls) = 2
    /\ last.calls[1].call = "add_event"
    /\ last.calls[2].outcome = StoreFault

\* C18: a save(new=true) that returns UNABLE_TO_CREATE leaves the token of
\* the record, and the record, as they were, and makes no call but the
\* refused insert: nothing is queued and no dashboard event and no telemetry
\* are sent, whatever the state of the record.
C18_RefusedCreateHasNoEffects ==
    [][\A h \in Handles :
          (/\ objs[h].live
           /\ last'.op = "save" /\ last'.h = h
           /\ last'.result = "Error" /\ last'.error = "UNABLE_TO_CREATE")
          => /\ last'.args[1]
             /\ objs'[h].f["etag"] = objs[h].f["etag"]
             /\ objs'[h] = objs[h]
             /\ Len(last'.calls) = 1
             /\ last'.calls[1].call = "insert_entity"
             /\ \A i \in DOMAIN last'.calls :
                   last'.calls[i].call \notin
                      {"self.etag", "queue_update", "add_event",
                       "track_event_filtered"}]_vars

\* A create of a record that holds a token and whose state is pending has
\* been refused.
C18_Witness ==
    /\ last.op = "save" /\ last.args[1]
    /\ last.result = "Error" /\ last.error = "UNABLE_TO_CREATE"
    /\ cls = Work
    /\ objs[last.h].f["state"] \in needs_work
    /\ objs[last.h].f["etag"] # NoneV
    /\ Len(last.calls) = 1

\* C19: when the row of a record has been deleted, a save(new=false,
\* require_etag=true) of a handle that still holds a token fails and the key
\* stays without a row, and a save(new=false, require_etag=false) of such a
\* handle writes the row again; in every interleaving of the callers.
C19_NoResurrection ==
    [][\A h \in Handles :
          (/\ Truthy(objs[h].f["etag"])
           /\ SaveKey(h) \notin DOMAIN store)
          => /\ SaveStep(h, FALSE, TRUE)
                => /\ last'.result = "raise"
                   /\ store' = store
                   /\ SaveKey(h) \notin DOMAIN store'
             /\ SaveStep(h, FALSE, FALSE)
                => /\ last'.result = "None"
                   /\ SaveKey(h) \in DOMAIN store'
                   /\ store'[SaveKey(h)].cols = SaveEntity(cls, objs[h].f)]_vars

\* A handle that holds a token has tried a token-checked save of a row that
\* was deleted, and the row is still not there.
C19_Witness ==
    /\ last.op = "save" /\ last.args = <<FALSE, TRUE>>
    /\ last.result = "raise"
    /\ last.calls[1].call = "replace_entity"
    /\ last.calls[1].outcome = "AzureMissingResourceHttpError"
    /\ Truthy(objs[last.h].f["etag"])
    /\ EntityKey(last.calls[1].args[1]) \notin DOMAIN store

\* The sizes of the scalesets scale_up has created, added up.
RECURSIVE CreatedNodes(_)
CreatedNodes(created) ==
    IF created = <<>> THEN 0
    ELSE created[1].size + CreatedNodes(Tail(created))

\* C20: when scale_up has reached its creation loop with n > 0 nodes still
\* needed and m = min(scaleset_max_size(image), pool.max_size) >= 1 and has
\* returned, it has created and saved the least number k of scalesets with
\* k * m >= n, each of a size from 1 to m, and the sizes add up to n.
C20_ScaleUpCreation ==
    LET n == last.needed
        m == Min(last.image_max, last.pool.max_size)
    IN  (last.op = "scale_up" /\ last.pc = "done" /\ n > 0 /\ m >= 1)
        => /\ \A k \in 0..n :
                 (k * m >= n /\ (k - 1) * m < n) => Len(last.created) = k
           /\ \A j \in 1..Len(last.created) :
                 /\ last.created[j].size \in 1..m
                 /\ last.created[j].saved
           /\ CreatedNodes(last.created) = n
           /\ last.nodes_needed = 0

\* scale_up has returned after it created several scalesets, the last one
\* smaller than the others.
C20_Witness ==
    /\ last.op = "scale_up" /\ last.pc = "done"
    /\ last.needed > Min(last.image_max, last.pool.max_size)
    /\ last.needed % Min(last.image_max, last.pool.max_size) # 0
    /\ Len(last.created) >= 2
    /\ last.created[Len(last.created)].size < last.created[1].size

====
